---- MODULE Spec2Model ----
(***************************************************************************)
(* Model of the meeting scheduler: the slot generator and the window       *)
(* scheduler of actions/events.js, the booking admission of                *)
(* actions/bookings.js and the availability store of                       *)
(* actions/availability.js.                                                *)
(*                                                                         *)
(* Time is counted in ticks.  An instant (a JS Date) is a natural number   *)
(* t; its calendar date is t \div DayLen and its time of day ("HH:mm") is  *)
(* t % DayLen.  The server's local time zone is taken to be UTC, so the    *)
(* local parse (parseISO, new Date("...T..")) and toISOString() agree on   *)
(* the time of day.                                                        *)
(***************************************************************************)
EXTENDS Integers, Sequences, FiniteSets, TLC

VARIABLES
  now,            \* the wall clock read by new Date()
  isBeforeBound,  \* does the identifier isBefore, which events.js calls but does
                  \* not import, resolve when the module runs
  availability,   \* db.availability with its days, per user id
  events,         \* db.event, per event id
  bookings,       \* db.booking rows
  req,            \* the createBooking calls in flight, per caller
  availResult,    \* what the last getEventAvailability call returned
  gen,            \* one direct call of genrateAvailableTimeSlots
  page,           \* what the pages last rendered from the server's answers
  eventForm,      \* the create-event drawer: its useFetch state and its submissions
  dashboard,      \* the dashboard's useFetch(updateUsername) state and its invocations
  users,          \* db.user rows
  calls           \* the updateUsername, checkUser and deleteEvent calls in flight

vars == <<now, isBeforeBound, availability, events, bookings, req, availResult, gen, page,
          eventForm, dashboard, users, calls>>

----------------------------------------------------------------------------
(* Bounds of the model *)

DayLen == 4           \* ticks in one calendar day
MaxDuration == 3      \* longest event duration, in ticks
MaxGap == 2           \* largest timeGap, in ticks
MaxGenBookings == 2   \* bookings handed to one direct generator call
MaxTicks == 1         \* how many times the clock advances
MaxBookTod == 1       \* latest time of day a visitor requests
MaxInvocations == 2   \* invocations of one useFetch function

(* Program constants *)

WindowDays == 30

Weekdays == <<"SUNDAY", "MONDAY", "TUESDAY", "WEDNESDAY", "THURSDAY", "FRIDAY", "SATURDAY">>

----------------------------------------------------------------------------
(* date-fns and Date helpers *)

\* format(d, "yyyy-MM-dd"): the calendar date of an instant
formatDate(t) == t \div DayLen

\* format(d, "HH:mm") and toISOString().slice(11,16): the time of day
formatHHmm(t) == t % DayLen

\* parseISO(`${dateStr}T${hhmm}`): the instant of a time of day on a date
parseISO(dateStr, hhmm) == dateStr * DayLen + hhmm

\* format(date, "EEEE").toUpperCase()
dayOfWeekOf(date) == Weekdays[(date % Len(Weekdays)) + 1]

\* addMinutes(d, n)
addMinutes(t, n) == t + n

\* isBefore(a, b) of date-fns
isBefore(a, b) == a < b

----------------------------------------------------------------------------
(* genrateAvailableTimeSlots *)

\* the conflict test without its third case
SlotConflict_NoContain(currentTime, slotEnd, booking) ==
  \/ (currentTime >= booking.startTime /\ currentTime < booking.endTime)
  \/ (slotEnd > booking.startTime /\ slotEnd <= booking.endTime)

\* the conflict test with its first case closed at the booking's end
SlotConflict_Closed(currentTime, slotEnd, booking) ==
  \/ (currentTime >= booking.startTime /\ currentTime <= booking.endTime)
  \/ (slotEnd > booking.startTime /\ slotEnd <= booking.endTime)
  \/ (currentTime <= booking.startTime /\ slotEnd >= booking.endTime)

\* the conflict test without its first case
SlotConflict_NoStartInside(currentTime, slotEnd, booking) ==
  \/ (slotEnd > booking.startTime /\ slotEnd <= booking.endTime)
  \/ (currentTime <= booking.startTime /\ slotEnd >= booking.endTime)

\* the callback of bookings.some(...): the three-case conflict test
SlotConflict(currentTime, slotEnd, booking) ==
  \/ (currentTime >= booking.startTime /\ currentTime < booking.endTime)
  \/ (slotEnd > booking.startTime /\ slotEnd <= booking.endTime)
  \/ (currentTime <= booking.startTime /\ slotEnd >= booking.endTime)

\* the loop condition with <= for <
LoopCond_Inclusive(currentTime, slotEndTime) == currentTime <= slotEndTime

\* the condition of the while loop
LoopCond(currentTime, slotEndTime) == currentTime < slotEndTime

\* the loop with the cursor moved to the end of a booking that is in the way
RECURSIVE slotLoop_SkipToBookingEnd(_, _, _, _, _)
slotLoop_SkipToBookingEnd(currentTime, slotEndTime, eventDuration, bks, slots) ==
  IF LoopCond(currentTime, slotEndTime)
  THEN LET slotEnd == currentTime + eventDuration
           inTheWay == { booking \in bks : SlotConflict(currentTime, slotEnd, booking) }
       IN  IF inTheWay = {}
           THEN slotLoop_SkipToBookingEnd(slotEnd, slotEndTime, eventDuration, bks,
                                          Append(slots, formatHHmm(currentTime)))
           ELSE slotLoop_SkipToBookingEnd((CHOOSE b \in inTheWay : TRUE).endTime, slotEndTime,
                                          eventDuration, bks, slots)
  ELSE slots

\* the while loop: the slots pushed from currentTime on
RECURSIVE slotLoop(_, _, _, _, _)
slotLoop(currentTime, slotEndTime, eventDuration, bks, slots) ==
  IF LoopCond(currentTime, slotEndTime)
  THEN LET slotEnd == currentTime + eventDuration
           isSlotAvailable == ~ \E booking \in bks : SlotConflict(currentTime, slotEnd, booking)
       IN  slotLoop(slotEnd, slotEndTime, eventDuration, bks,
                    IF isSlotAvailable THEN Append(slots, formatHHmm(currentTime)) ELSE slots)
  ELSE slots

\* currentTime after the "today" adjustment, when isBefore resolves
startCursor(startTime, dateStr, timeGap, nowT) ==
  LET currentTime == parseISO(dateStr, formatHHmm(startTime))
  IN  IF formatDate(nowT) = dateStr
      THEN (IF isBefore(currentTime, nowT) THEN addMinutes(nowT, timeGap) ELSE currentTime)
      ELSE currentTime

\* The call's outcome: threw = TRUE when evaluating the unbound identifier
\* isBefore raises ReferenceError, else the returned slots.
genrateAvailableTimeSlots(startTime, endTime, eventDuration, dateStr, bks, timeGap, nowT, bound) ==
  LET slotEndTime == parseISO(dateStr, formatHHmm(endTime))
  IN  IF formatDate(nowT) = dateStr /\ ~bound
      THEN [threw |-> TRUE, slots |-> << >>]
      ELSE [threw |-> FALSE,
            slots |-> slotLoop(startCursor(startTime, dateStr, timeGap, nowT),
                               slotEndTime, eventDuration, bks, << >>)]

----------------------------------------------------------------------------
(* Initial values of the database and of the calls *)

NoResult == [called |-> FALSE, event |-> "none", empty |-> TRUE, threw |-> FALSE, dates |-> << >>]

GenIdle == [called |-> FALSE, startTime |-> 0, endTime |-> 0, eventDuration |-> 1,
            date |-> 0, bookings |-> {}, timeGap |-> 0, out |-> [threw |-> FALSE, slots |-> << >>]]

----------------------------------------------------------------------------
(* getEventAvailability *)

NoAvailability == [exists |-> FALSE, timeGap |-> 0, days |-> {}]

\* a find that takes the first rule whatever its weekday
dayAvailabilityOf_AnyDay(days, dayOfWeek) == days

\* availability.days.find((d) => d.day === dayOfWeek): the matching rules
dayAvailabilityOf(days, dayOfWeek) == { d \in days : d.day = dayOfWeek }

\* the for loop over date = startDate .. endDate, from date on: the entries
\* pushed to availableDates, and whether a generator call threw
RECURSIVE availableDatesFrom(_, _, _, _, _, _, _)
availableDatesFrom(date, endDate, avail, eventDuration, bks, nowT, bound) ==
  IF date <= endDate
  THEN LET found == dayAvailabilityOf(avail.days, dayOfWeekOf(date))
           rest  == availableDatesFrom(date + 1, endDate, avail, eventDuration, bks, nowT, bound)
       IN  IF found # {}
           THEN LET dayAvailability == CHOOSE d \in found : TRUE
                    out == genrateAvailableTimeSlots(dayAvailability.startTime,
                              dayAvailability.endTime, eventDuration, date, bks,
                              avail.timeGap, nowT, bound)
                IN  IF out.threw
                    THEN [threw |-> TRUE, dates |-> << >>]
                    ELSE [threw |-> rest.threw,
                          dates |-> IF rest.threw THEN << >>
                                    ELSE <<[date |-> date, slots |-> out.slots]>> \o rest.dates]
           ELSE rest
  ELSE [threw |-> FALSE, dates |-> << >>]

\* the rows of every user but the owner
bookingsOfUser_OtherUsers(bks, userId) ==
  { [startTime |-> b.startTime, endTime |-> b.endTime] : b \in { x \in bks : x.userId # userId } }

\* event.user.bookings: the rows of the event's owner, as {startTime, endTime}
bookingsOfUser(bks, userId) ==
  { [startTime |-> b.startTime, endTime |-> b.endTime] : b \in { x \in bks : x.userId = userId } }

\* the call without its early return: reading event.user of null, or
\* availability.days of null, raises TypeError
getEventAvailability_NoGuard(eventId, evs, avails, bks, nowT, bound) ==
  IF eventId \notin DOMAIN evs \/ ~avails[evs[eventId].userId].exists
  THEN [empty |-> FALSE, threw |-> TRUE, dates |-> << >>]
  ELSE LET event == evs[eventId]
           startDate == formatDate(nowT)
           endDate == startDate + WindowDays
           r == availableDatesFrom(startDate, endDate, avails[event.userId], event.duration,
                                   bookingsOfUser(bks, event.userId), nowT, bound)
       IN  [empty |-> FALSE, threw |-> r.threw, dates |-> r.dates]

\* the whole call: empty = TRUE for the early "return []"
getEventAvailability(eventId, evs, avails, bks, nowT, bound) ==
  IF eventId \notin DOMAIN evs \/ ~avails[evs[eventId].userId].exists
  THEN [empty |-> TRUE, threw |-> FALSE, dates |-> << >>]
  ELSE LET event == evs[eventId]
           startDate == formatDate(nowT)
           endDate == startDate + WindowDays
           r == availableDatesFrom(startDate, endDate, avails[event.userId], event.duration,
                                   bookingsOfUser(bks, event.userId), nowT, bound)
       IN  [empty |-> FALSE, threw |-> r.threw, dates |-> r.dates]

----------------------------------------------------------------------------
(* The database at start, and the inputs of the calls *)

Users == {"u1", "u2"}

\* the users with a session during the run: auth() returns their id
SignedIn == {"u1"}

\* the clock at start: the first instant of date 1, a Monday
InitialNow == parseISO(1, 0)

\* the events in the database: two of u1, one of u2
InitEvents ==
  [e \in {"e1", "e2", "e3"} |->
     IF e = "e1" THEN [userId |-> "u1", duration |-> 1]
     ELSE IF e = "e2" THEN [userId |-> "u1", duration |-> MaxDuration]
     ELSE [userId |-> "u2", duration |-> 2]]

\* event ids a caller may name; "e9" is not in the database
EventIds == {"e1", "e2", "e3", "e9"}

\* the visitors who submit the booking form, when two of them race
Callers == {"c1", "c2"}

\* the one visitor of a run without a race
SoloCallers == {"c1"}

\* requested start instants: early times of day, today and tomorrow
BookStarts ==
  { parseISO(d, h) : d \in {formatDate(InitialNow), formatDate(InitialNow) + 1},
                     h \in 0 .. MaxBookTod }

\* the form keys of the weekdays, in the order of Weekdays
DayKeys == <<"sunday", "monday", "tuesday", "wednesday", "thursday", "friday", "saturday">>

\* day.toUpperCase()
toUpperCase(day) == Weekdays[CHOOSE i \in DOMAIN DayKeys : DayKeys[i] = day]

\* the values the server action may be called with: the weekdays marked
\* available, one window for all of them, and the time gap.  The last one,
\* with its window reversed, does not pass the form's resolver; the server
\* action parses nothing and takes it from any other caller.
AvailabilityInputs ==
  { [timeGap |-> g,
     days |-> [k \in {DayKeys[i] : i \in DOMAIN DayKeys} |->
                 [isAvailable |-> k \in on, startTime |-> w[1], endTime |-> w[2]]]] :
      <<g, on, w>> \in
        { <<0, {DayKeys[i] : i \in DOMAIN DayKeys}, <<0, DayLen - 1>> >>,
          <<MaxGap, {DayKeys[i] : i \in DOMAIN DayKeys}, <<1, 3>> >>,
          <<0, {"tuesday"}, <<1, 3>> >>,
          <<0, {"monday"}, <<3, 1>> >> } }

----------------------------------------------------------------------------
(* getUserAvailability *)

\* "09:00" and "17:00", the times reported for a weekday with no stored rule
DefaultStartTime == 1
DefaultEndTime == 3

\* d.<name> on a row object: undefined when the row has no such property
prop(d, name) == IF name \in DOMAIN d THEN d[name] ELSE "undefined"

\* user.availability.days.find((d) => d.days === day.toUpperCase())
findDay(days, day) == { d \in days : prop(d, "days") = toUpperCase(day) }

\* what the call stands for when it returns null
NullAvailabilityData ==
  [null |-> TRUE, timeGap |-> 0,
   days |-> [k \in {DayKeys[i] : i \in DOMAIN DayKeys} |->
               [isAvailable |-> FALSE, startTime |-> DefaultStartTime,
                endTime |-> DefaultEndTime]]]

\* the whole call: null = TRUE for "return null", else availabilityData
getUserAvailability(u, avails) ==
  IF ~avails[u].exists
  THEN NullAvailabilityData
  ELSE [null |-> FALSE, timeGap |-> avails[u].timeGap,
        days |-> [k \in {DayKeys[i] : i \in DOMAIN DayKeys} |->
                    LET found == findDay(avails[u].days, k)
                    IN  IF found # {}
                        THEN LET dayAvailability == CHOOSE d \in found : TRUE
                             IN  [isAvailable |-> TRUE,
                                  startTime |-> formatHHmm(dayAvailability.startTime),
                                  endTime |-> formatHHmm(dayAvailability.endTime)]
                        ELSE [isAvailable |-> FALSE, startTime |-> DefaultStartTime,
                              endTime |-> DefaultEndTime]]]

----------------------------------------------------------------------------
(* The pages: what each of them last received *)

\* the booking page before its first render
NoAnswer == [called |-> FALSE, event |-> "none", profile |-> NoAvailability, bookings |-> {},
             now |-> 0, empty |-> TRUE, threw |-> FALSE, dates |-> << >>]

\* the availability page before its first render
NoForm == [loaded |-> FALSE, user |-> "none", data |-> NullAvailabilityData]

NoPage == [answer |-> NoAnswer, form |-> NoForm]

----------------------------------------------------------------------------
(* useFetch, and the two components that use it *)

\* null, the initial value of error and of data; responses and errors are
\* the positive numbers
Null == 0

\* useState(false), useState(null), useState(null)
NewHook == [loading |-> FALSE, error |-> Null, data |-> Null]

\* fn, up to the await: setLoading(true); setError(null)
fnStart(h) == [h EXCEPT !.loading = TRUE, !.error = Null]

\* fn after the await with the finally block left out of the catch path
fnSettle_NoFinally(h, ok, response, err) ==
  IF ok
  THEN [h EXCEPT !.data = response, !.error = Null, !.loading = FALSE]
  ELSE [h EXCEPT !.error = err]

\* fn after the await: try { setData; setError(null) } catch { setError }
\* finally { setLoading(false) }
fnSettle(h, ok, response, err) ==
  IF ok
  THEN [h EXCEPT !.data = response, !.error = Null, !.loading = FALSE]
  ELSE [h EXCEPT !.error = err, !.loading = FALSE]

\* how the promise of fn settles: the catch block rethrows nothing
fnPromise(ok) == "fulfilled"

Invocations == 1 .. MaxInvocations

IdleInvocation == [pc |-> "idle", seq |-> 0, ok |-> FALSE, promise |-> "none",
                   loading |-> FALSE, error |-> Null, closed |-> FALSE]

NewDashboard == [hook |-> NewHook, started |-> 0, calls |-> [i \in Invocations |-> IdleInvocation]]

NewEventForm == [hook |-> NewHook, isOpen |-> FALSE, calls |-> [i \in Invocations |-> IdleInvocation]]

----------------------------------------------------------------------------
(* The user table and the calls of the server actions that read it *)

\* Clerk user ids; "k3" has signed up and has no row in db.user yet.  A
\* caller of "none" has no session: auth() gives no userId.
ClerkIds == {"k1", "k2", "k3"}

\* db.user at start: the owners of the events, with their Clerk ids
InitUsers == { [id |-> "u1", clerkUserId |-> "k1", username |-> "alice"],
               [id |-> "u2", clerkUserId |-> "k2", username |-> "bob"] }

\* the usernames a user may ask for
Usernames == {"alice", "bob", "carol"}

\* the slots of updateUsername calls, one per user, of checkUser calls and
\* of deleteEvent calls
NameCalls == {"n1", "n2"}
CheckCalls == {"p1", "p2"}
DeleteCalls == {"x1", "x2"}

\* the user whose dashboard makes the calls of a slot
callerOf(n) == IF n = "n1" THEN "k1" ELSE "k2"

IdleCall == [pc |-> "idle", caller |-> "none", arg |-> "none", userId |-> "none",
             result |-> "none"]

NoCalls == [c \in NameCalls \cup CheckCalls \cup DeleteCalls |-> IdleCall]

\* db.user.findUnique({ where: { username } }) and ({ where: { clerkUserId } })
userByUsername(rows, username) == { r \in rows : r.username = username }
userByClerkId(rows, clerkUserId) == { r \in rows : r.clerkUserId = clerkUserId }

IdleReq == [pc |-> "idle", eventId |-> "none", startTime |-> 0, endTime |-> 0,
            userId |-> "none", result |-> "none"]

Init ==
  /\ now = InitialNow
  /\ isBeforeBound \in BOOLEAN
  /\ availability = [u \in Users |-> NoAvailability]
  /\ events = InitEvents
  /\ bookings = {}
  /\ req = [c \in SoloCallers |-> IdleReq]
  /\ availResult = NoResult
  /\ gen = GenIdle
  /\ page = NoPage
  /\ eventForm = NewEventForm
  /\ dashboard = NewDashboard
  /\ users = InitUsers
  /\ calls = NoCalls

----------------------------------------------------------------------------
(* The clock *)

\* getEventAvailability runs to its return without an await after its one
\* query, so no other step falls between its read and its answer
NoAnswerPending == ~availResult.called

Tick ==
  /\ NoAnswerPending
  /\ now < InitialNow + MaxTicks
  /\ now' = now + 1
  /\ UNCHANGED <<isBeforeBound, availability, events, bookings, req, availResult, gen, page,
               eventForm, dashboard, users, calls>>

----------------------------------------------------------------------------
(* updateUserAvailability *)

\* the rows to create when no entry is dropped
availabilityDataOf_NoFilter(data, baseData) ==
  { [day |-> toUpperCase(k),
     startTime |-> parseISO(baseData, data.days[k].startTime),
     endTime |-> parseISO(baseData, data.days[k].endTime)] :
      k \in DOMAIN data.days }

\* Object.entries(data).flatMap(...): the rows to create, on base date baseData
availabilityDataOf(data, baseData) ==
  { [day |-> toUpperCase(k),
     startTime |-> parseISO(baseData, data.days[k].startTime),
     endTime |-> parseISO(baseData, data.days[k].endTime)] :
      k \in { d \in DOMAIN data.days : data.days[d].isAvailable } }

\* the update with days: { create } and no deleteMany
updateUserAvailability_Merge(u, data) ==
  /\ NoAnswerPending
  /\ u \in SignedIn
  /\ availability' = [availability EXCEPT ![u] =
        [exists |-> TRUE, timeGap |-> data.timeGap,
         days |-> availability[u].days \cup availabilityDataOf(data, formatDate(now))]]
  /\ UNCHANGED <<now, isBeforeBound, events, bookings, req, availResult, gen, page,
               eventForm, dashboard, users, calls>>

updateUserAvailability(u, data) ==
  /\ NoAnswerPending
  /\ u \in SignedIn
  /\ availability' = [availability EXCEPT ![u] =
        [exists |-> TRUE, timeGap |-> data.timeGap,
         days |-> availabilityDataOf(data, formatDate(now))]]
  /\ UNCHANGED <<now, isBeforeBound, events, bookings, req, availResult, gen, page,
               eventForm, dashboard, users, calls>>

----------------------------------------------------------------------------
(* createBooking, one action per await *)

\* the form is submitted: bookingData is built and the server action starts
SubmitBooking(c, eventId, startTime) ==
  /\ NoAnswerPending
  /\ req[c].pc = "idle"
  /\ req' = [req EXCEPT ![c] =
        [pc |-> "findEvent", eventId |-> eventId, startTime |-> startTime,
         endTime |-> startTime + (IF eventId \in DOMAIN events THEN events[eventId].duration ELSE 1),
         userId |-> "none", result |-> "none"]]
  /\ UNCHANGED <<now, isBeforeBound, availability, events, bookings, availResult, gen, page,
               eventForm, dashboard, users, calls>>

\* a) db.event.findUnique({ where: { id }, include: { user: true } })
FindEvent(c) ==
  /\ NoAnswerPending
  /\ req[c].pc = "findEvent"
  /\ IF req[c].eventId \in DOMAIN events
     THEN req' = [req EXCEPT ![c].pc = "token", ![c].userId = events[req[c].eventId].userId]
     ELSE req' = [req EXCEPT ![c].pc = "done", ![c].result = "error"]
  /\ UNCHANGED <<now, isBeforeBound, availability, events, bookings, availResult, gen, page,
               eventForm, dashboard, users, calls>>

\* b) client.users.getUserOauthAccessToken(...): the provider answers or fails
GetToken(c, ok) ==
  /\ NoAnswerPending
  /\ req[c].pc = "token"
  /\ IF ok
     THEN req' = [req EXCEPT ![c].pc = "calendar"]
     ELSE req' = [req EXCEPT ![c].pc = "done", ![c].result = "error"]
  /\ UNCHANGED <<now, isBeforeBound, availability, events, bookings, availResult, gen, page,
               eventForm, dashboard, users, calls>>

\* c) with the row written before the calendar is asked
InsertCalendarEvent_RowFirst(c, ok) ==
  /\ NoAnswerPending
  /\ req[c].pc = "calendar"
  /\ bookings' = bookings \cup
        { [id |-> Cardinality(bookings) + 1, eventId |-> req[c].eventId,
           userId |-> req[c].userId, name |-> c,
           startTime |-> req[c].startTime, endTime |-> req[c].endTime] }
  /\ IF ok
     THEN req' = [req EXCEPT ![c].pc = "done", ![c].result = "success"]
     ELSE req' = [req EXCEPT ![c].pc = "done", ![c].result = "error"]
  /\ UNCHANGED <<now, isBeforeBound, availability, events, availResult, gen, page,
               eventForm, dashboard, users, calls>>

\* c) calendar.events.insert(...): the calendar answers or fails
InsertCalendarEvent(c, ok) ==
  /\ NoAnswerPending
  /\ req[c].pc = "calendar"
  /\ IF ok
     THEN req' = [req EXCEPT ![c].pc = "create"]
     ELSE req' = [req EXCEPT ![c].pc = "done", ![c].result = "error"]
  /\ UNCHANGED <<now, isBeforeBound, availability, events, bookings, availResult, gen, page,
               eventForm, dashboard, users, calls>>

\* d) db.booking.create({ data: {...} }) and e) return { success: true, ... };
\* the database writes the row or rejects the write
CreateBookingRow(c, ok) ==
  /\ NoAnswerPending
  /\ req[c].pc = "create"
  /\ IF ok
     THEN /\ bookings' = bookings \cup
                { [id |-> Cardinality(bookings) + 1, eventId |-> req[c].eventId,
                   userId |-> req[c].userId, name |-> c,
                   startTime |-> req[c].startTime, endTime |-> req[c].endTime] }
          /\ req' = [req EXCEPT ![c].pc = "done", ![c].result = "success"]
     ELSE /\ bookings' = bookings
          /\ req' = [req EXCEPT ![c].pc = "done", ![c].result = "error"]
  /\ UNCHANGED <<now, isBeforeBound, availability, events, availResult, gen, page,
               eventForm, dashboard, users, calls>>

----------------------------------------------------------------------------
(* A visitor opens the booking page of an event *)

GetEventAvailability(eventId) ==
  /\ NoAnswerPending
  /\ availResult' =
       LET r == getEventAvailability(eventId, events, availability, bookings, now, isBeforeBound)
       IN  [called |-> TRUE, event |-> eventId, empty |-> r.empty, threw |-> r.threw,
            dates |-> r.dates]
  /\ UNCHANGED <<now, isBeforeBound, availability, events, bookings, req, gen, page,
               eventForm, dashboard, users, calls>>

\* the answer has been sent; the call keeps nothing
ReturnAvailability ==
  /\ availResult.called
  /\ availResult' = NoResult
  /\ UNCHANGED <<now, isBeforeBound, availability, events, bookings, req, gen, page,
               eventForm, dashboard, users, calls>>

\* the booking page renders the answer it received; inputsOf records what
\* the database and the clock held when the answer was computed
inputsOf(eventId) ==
  IF eventId \in DOMAIN events
  THEN [profile |-> availability[events[eventId].userId],
        bookings |-> bookingsOfUser(bookings, events[eventId].userId), now |-> now]
  ELSE [profile |-> NoAvailability, bookings |-> {}, now |-> now]

RenderEventPage ==
  /\ availResult.called
  /\ page' = [page EXCEPT !.answer =
        [called |-> TRUE, event |-> availResult.event,
         profile |-> inputsOf(availResult.event).profile,
         bookings |-> inputsOf(availResult.event).bookings,
         now |-> inputsOf(availResult.event).now,
         empty |-> availResult.empty, threw |-> availResult.threw,
         dates |-> availResult.dates]]
  /\ availResult' = NoResult
  /\ UNCHANGED <<now, isBeforeBound, availability, events, bookings, req, gen,
               eventForm, dashboard, users, calls>>

\* AvailabilityPage: const availability = await getUserAvailability()
RenderAvailabilityPage(u) ==
  /\ NoAnswerPending
  /\ u \in SignedIn
  /\ page' = [page EXCEPT !.form =
        [loaded |-> TRUE, user |-> u, data |-> getUserAvailability(u, availability)]]
  /\ UNCHANGED <<now, isBeforeBound, availability, events, bookings, req, availResult, gen,
               eventForm, dashboard, users, calls>>

----------------------------------------------------------------------------

Next ==
  \/ Tick
  \/ \E u \in Users, data \in AvailabilityInputs : updateUserAvailability(u, data)
  \/ \E c \in DOMAIN req, e \in EventIds, s \in BookStarts : SubmitBooking(c, e, s)
  \/ \E c \in DOMAIN req : FindEvent(c)
  \/ \E c \in DOMAIN req, ok \in BOOLEAN : GetToken(c, ok)
  \/ \E c \in DOMAIN req, ok \in BOOLEAN : InsertCalendarEvent(c, ok)
  \/ \E c \in DOMAIN req, ok \in BOOLEAN : CreateBookingRow(c, ok)
  \/ \E e \in EventIds : GetEventAvailability(e)
  \/ ReturnAvailability

Spec == Init /\ [][Next]_vars

----------------------------------------------------------------------------
(* Two visitors submit the booking form while the owner edits the schedule *)

RaceInit ==
  /\ now = InitialNow
  /\ isBeforeBound \in BOOLEAN
  /\ availability = [u \in Users |-> NoAvailability]
  /\ events = InitEvents
  /\ bookings = {}
  /\ req = [c \in Callers |-> IdleReq]
  /\ availResult = NoResult
  /\ gen = GenIdle
  /\ page = NoPage
  /\ eventForm = NewEventForm
  /\ dashboard = NewDashboard
  /\ users = InitUsers
  /\ calls = NoCalls

RaceNext ==
  \/ Tick
  \/ \E u \in Users, data \in AvailabilityInputs : updateUserAvailability(u, data)
  \/ \E c \in DOMAIN req, e \in EventIds, s \in BookStarts : SubmitBooking(c, e, s)
  \/ \E c \in DOMAIN req : FindEvent(c)
  \/ \E c \in DOMAIN req, ok \in BOOLEAN : GetToken(c, ok)
  \/ \E c \in DOMAIN req, ok \in BOOLEAN : InsertCalendarEvent(c, ok)
  \/ \E c \in DOMAIN req, ok \in BOOLEAN : CreateBookingRow(c, ok)

RaceSpec == RaceInit /\ [][RaceNext]_vars

----------------------------------------------------------------------------
(* The owner edits the schedule and both pages are opened again and again *)

\* booking rows as createBooking writes them: one of each owner, tomorrow
PageRow1 == [id |-> 1, eventId |-> "e2", userId |-> "u1", name |-> "c1",
             startTime |-> parseISO(formatDate(InitialNow) + 1, 0),
             endTime |-> parseISO(formatDate(InitialNow) + 1, 0) + InitEvents["e2"].duration]
PageRow2 == [id |-> 2, eventId |-> "e3", userId |-> "u2", name |-> "c2",
             startTime |-> parseISO(formatDate(InitialNow) + 1, 1),
             endTime |-> parseISO(formatDate(InitialNow) + 1, 1) + InitEvents["e3"].duration]

PageBookings == { {}, {PageRow1}, {PageRow1, PageRow2} }

PageInit ==
  /\ now = InitialNow
  /\ isBeforeBound \in BOOLEAN
  /\ availability = [u \in Users |-> NoAvailability]
  /\ events = InitEvents
  /\ bookings \in PageBookings
  /\ req = [c \in SoloCallers |-> IdleReq]
  /\ availResult = NoResult
  /\ gen = GenIdle
  /\ page = NoPage
  /\ eventForm = NewEventForm
  /\ dashboard = NewDashboard
  /\ users = InitUsers
  /\ calls = NoCalls

PageNext ==
  \/ Tick
  \/ \E u \in Users, data \in AvailabilityInputs : updateUserAvailability(u, data)
  \/ \E e \in EventIds : GetEventAvailability(e)
  \/ RenderEventPage
  \/ \E u \in Users : RenderAvailabilityPage(u)

PageSpec == PageInit /\ [][PageNext]_vars

----------------------------------------------------------------------------
(* updateUsername, one action per await *)

\* the dashboard form is submitted: the server action starts
StartUpdateUsername(n, caller, username) ==
  /\ calls[n].pc \in {"idle", "done"}
  /\ calls' = [calls EXCEPT ![n] =
        [pc |-> "auth", caller |-> caller, arg |-> username, userId |-> "none",
         result |-> "none"]]
  /\ UNCHANGED <<now, isBeforeBound, availability, events, bookings, req, availResult, gen,
                 page, eventForm, dashboard, users>>

\* const {userId} = await auth(); if(!userId) throw
AuthUsername(n) ==
  /\ calls[n].pc = "auth"
  /\ IF calls[n].caller = "none"
     THEN calls' = [calls EXCEPT ![n].pc = "done", ![n].result = "User not authenticated"]
     ELSE calls' = [calls EXCEPT ![n].pc = "find", ![n].userId = calls[n].caller]
  /\ UNCHANGED <<now, isBeforeBound, availability, events, bookings, req, availResult, gen,
                 page, eventForm, dashboard, users>>

\* existingUsername && existingUsername.id !== userId
usernameTaken(rows, username, userId) ==
  \E existingUsername \in userByUsername(rows, username) :
    existingUsername.id # userId

\* const existingUsername = await db.user.findUnique(...); if(...) throw
FindUsername(n) ==
  /\ calls[n].pc = "find"
  /\ IF usernameTaken(users, calls[n].arg, calls[n].userId)
     THEN calls' = [calls EXCEPT ![n].pc = "done", ![n].result = "Username already taken"]
     ELSE calls' = [calls EXCEPT ![n].pc = "update"]
  /\ UNCHANGED <<now, isBeforeBound, availability, events, bookings, req, availResult, gen,
                 page, eventForm, dashboard, users>>

\* the update on a column that is not declared unique
UpdateUserRow_NoUnique(n) ==
  /\ calls[n].pc = "update"
  /\ IF userByClerkId(users, calls[n].userId) = {}
     THEN /\ calls' = [calls EXCEPT ![n].pc = "done", ![n].result = "db error"]
          /\ users' = users
     ELSE /\ users' = { IF r.clerkUserId = calls[n].userId
                        THEN [r EXCEPT !.username = calls[n].arg] ELSE r : r \in users }
          /\ calls' = [calls EXCEPT ![n].pc = "clerk"]
  /\ UNCHANGED <<now, isBeforeBound, availability, events, bookings, req, availResult, gen,
                 page, eventForm, dashboard>>

\* await db.user.update({ where: { clerkUserId: userId }, data: { username } });
\* the database rejects the write when no row has the Clerk id or when
\* another row holds the username (username is @unique)
UpdateUserRow(n) ==
  /\ calls[n].pc = "update"
  /\ IF \/ userByClerkId(users, calls[n].userId) = {}
        \/ \E r \in userByUsername(users, calls[n].arg) : r.clerkUserId # calls[n].userId
     THEN /\ calls' = [calls EXCEPT ![n].pc = "done", ![n].result = "db error"]
          /\ users' = users
     ELSE /\ users' = { IF r.clerkUserId = calls[n].userId
                        THEN [r EXCEPT !.username = calls[n].arg] ELSE r : r \in users }
          /\ calls' = [calls EXCEPT ![n].pc = "clerk"]
  /\ UNCHANGED <<now, isBeforeBound, availability, events, bookings, req, availResult, gen,
                 page, eventForm, dashboard>>

\* await client.users.updateUser(userId, { username }); return { success: true };
\* Clerk accepts the username or rejects it
UpdateClerkUser(n, ok) ==
  /\ calls[n].pc = "clerk"
  /\ IF ok
     THEN calls' = [calls EXCEPT ![n].pc = "done", ![n].result = "success"]
     ELSE calls' = [calls EXCEPT ![n].pc = "done", ![n].result = "clerk error"]
  /\ UNCHANGED <<now, isBeforeBound, availability, events, bookings, req, availResult, gen,
                 page, eventForm, dashboard, users>>

----------------------------------------------------------------------------
(* checkUser, one action per await *)

\* the row checkUser creates for a Clerk user
newUserRow(clerkUserId) ==
  [id |-> "u3", clerkUserId |-> clerkUserId, username |-> "New-User-" \o clerkUserId]

\* const user = await currentUser(); if (!user) return null
StartCheckUser(p, caller) ==
  /\ calls[p].pc \in {"idle", "done"}
  /\ IF caller = "none"
     THEN calls' = [calls EXCEPT ![p] =
            [pc |-> "done", caller |-> caller, arg |-> "none", userId |-> "none",
             result |-> "null"]]
     ELSE calls' = [calls EXCEPT ![p] =
            [pc |-> "find", caller |-> caller, arg |-> "none", userId |-> "none",
             result |-> "none"]]
  /\ UNCHANGED <<now, isBeforeBound, availability, events, bookings, req, availResult, gen,
                 page, eventForm, dashboard, users>>

\* const loggedInUser = await db.user.findUnique(...); if (loggedInUser) return it
FindLoggedInUser(p) ==
  /\ calls[p].pc = "find"
  /\ LET found == userByClerkId(users, calls[p].caller)
     IN  IF found # {}
         THEN calls' = [calls EXCEPT ![p].pc = "done",
                                     ![p].result = (CHOOSE r \in found : TRUE).id]
         ELSE calls' = [calls EXCEPT ![p].pc = "create"]
  /\ UNCHANGED <<now, isBeforeBound, availability, events, bookings, req, availResult, gen,
                 page, eventForm, dashboard, users>>

\* const newUser = await db.user.create(...); return newUser, or, when the
\* database rejects the row (clerkUserId and username are @unique), the
\* catch block logs the error and the function returns undefined
CreateUser(p) ==
  /\ calls[p].pc = "create"
  /\ LET row == newUserRow(calls[p].caller)
     IN  IF \/ userByClerkId(users, row.clerkUserId) # {}
            \/ userByUsername(users, row.username) # {}
         THEN /\ users' = users
              /\ calls' = [calls EXCEPT ![p].pc = "done", ![p].result = "undefined"]
         ELSE /\ users' = users \cup {row}
              /\ calls' = [calls EXCEPT ![p].pc = "done", ![p].result = row.id]
  /\ UNCHANGED <<now, isBeforeBound, availability, events, bookings, req, availResult, gen,
                 page, eventForm, dashboard>>

UserNext ==
  \/ \E n \in NameCalls : \E caller \in {callerOf(n), "none"}, username \in Usernames :
       StartUpdateUsername(n, caller, username)
  \/ \E n \in NameCalls : AuthUsername(n)
  \/ \E n \in NameCalls : FindUsername(n)
  \/ \E n \in NameCalls : UpdateUserRow(n)
  \/ \E n \in NameCalls, ok \in BOOLEAN : UpdateClerkUser(n, ok)
  \/ \E p \in CheckCalls, caller \in {"k3", "none"} : StartCheckUser(p, caller)
  \/ \E p \in CheckCalls : FindLoggedInUser(p)
  \/ \E p \in CheckCalls : CreateUser(p)

\* the slot generator is not called here; isBefore is taken to resolve
UserInit == Init /\ isBeforeBound

UserSpec == UserInit /\ [][UserNext]_vars

----------------------------------------------------------------------------
(* deleteEvent, one action per await *)

StartDeleteEvent(x, caller, eventId) ==
  /\ calls[x].pc \in {"idle", "done"}
  /\ calls' = [calls EXCEPT ![x] =
        [pc |-> "auth", caller |-> caller, arg |-> eventId, userId |-> "none",
         result |-> "none"]]
  /\ UNCHANGED <<now, isBeforeBound, availability, events, bookings, req, availResult, gen,
                 page, eventForm, dashboard, users>>

\* const {userId} = await auth(); if(!userId) throw
AuthDelete(x) ==
  /\ calls[x].pc = "auth"
  /\ IF calls[x].caller = "none"
     THEN calls' = [calls EXCEPT ![x].pc = "done", ![x].result = "User not authenticated"]
     ELSE calls' = [calls EXCEPT ![x].pc = "user"]
  /\ UNCHANGED <<now, isBeforeBound, availability, events, bookings, req, availResult, gen,
                 page, eventForm, dashboard, users>>

\* const user = await db.user.findUnique(...); if(!user) throw
FindDeleteUser(x) ==
  /\ calls[x].pc = "user"
  /\ LET found == userByClerkId(users, calls[x].caller)
     IN  IF found = {}
         THEN calls' = [calls EXCEPT ![x].pc = "done", ![x].result = "User not found"]
         ELSE calls' = [calls EXCEPT ![x].pc = "event",
                                     ![x].userId = (CHOOSE r \in found : TRUE).id]
  /\ UNCHANGED <<now, isBeforeBound, availability, events, bookings, req, availResult, gen,
                 page, eventForm, dashboard, users>>

\* the check without event.userId !== user.id
mayDelete_AnyOwner(evs, eventId, userId) == eventId \in DOMAIN evs

\* !(!event || event.userId !== user.id)
mayDelete(evs, eventId, userId) ==
  eventId \in DOMAIN evs /\ evs[eventId].userId = userId

\* const event = await db.event.findUnique(...); if(...) throw
FindDeleteEvent(x) ==
  /\ calls[x].pc = "event"
  /\ IF mayDelete(events, calls[x].arg, calls[x].userId)
     THEN calls' = [calls EXCEPT ![x].pc = "delete"]
     ELSE calls' = [calls EXCEPT ![x].pc = "done", ![x].result = "Event not found"]
  /\ UNCHANGED <<now, isBeforeBound, availability, events, bookings, req, availResult, gen,
                 page, eventForm, dashboard, users>>

\* await db.event.delete({ where: { id: eventId } }); return { success: true };
\* the database deletes the row, or rejects the delete when the row is gone
\* or is still referenced
DeleteEventRow(x, ok) ==
  /\ calls[x].pc = "delete"
  /\ IF calls[x].arg \in DOMAIN events /\ ok
     THEN /\ events' = [e \in DOMAIN events \ {calls[x].arg} |-> events[e]]
          /\ calls' = [calls EXCEPT ![x].pc = "done", ![x].result = "success"]
     ELSE /\ events' = events
          /\ calls' = [calls EXCEPT ![x].pc = "done", ![x].result = "db error"]
  /\ UNCHANGED <<now, isBeforeBound, availability, bookings, req, availResult, gen,
                 page, eventForm, dashboard, users>>

DeleteNext ==
  \/ \E x \in DeleteCalls, caller \in ClerkIds \cup {"none"}, e \in EventIds :
       StartDeleteEvent(x, caller, e)
  \/ \E x \in DeleteCalls : AuthDelete(x)
  \/ \E x \in DeleteCalls : FindDeleteUser(x)
  \/ \E x \in DeleteCalls : FindDeleteEvent(x)
  \/ \E x \in DeleteCalls, ok \in BOOLEAN : DeleteEventRow(x, ok)

DeleteInit == Init /\ isBeforeBound

DeleteSpec == DeleteInit /\ [][DeleteNext]_vars

----------------------------------------------------------------------------
(* The dashboard: fnUpdateUserName is invoked on every submit *)

\* onSubmit: fnUpdateUserName(data.username), up to the await inside fn
InvokeUpdateUsername(i) ==
  /\ dashboard.calls[i].pc = "idle"
  /\ dashboard' = [dashboard EXCEPT
        !.hook = fnStart(dashboard.hook),
        !.started = dashboard.started + 1,
        !.calls[i].pc = "pending",
        !.calls[i].seq = dashboard.started + 1]
  /\ UNCHANGED <<now, isBeforeBound, availability, events, bookings, req, availResult, gen,
                 page, eventForm, users, calls>>

\* the server action of invocation i resolves with response i or rejects
\* with error i; fn runs to its end
SettleUpdateUsername(i, ok) ==
  /\ dashboard.calls[i].pc = "pending"
  /\ dashboard' = [dashboard EXCEPT
        !.hook = fnSettle(dashboard.hook, ok, i, i),
        !.calls[i].pc = "done",
        !.calls[i].ok = ok,
        !.calls[i].promise = fnPromise(ok)]
  /\ UNCHANGED <<now, isBeforeBound, availability, events, bookings, req, availResult, gen,
                 page, eventForm, users, calls>>

----------------------------------------------------------------------------
(* CreateEventDrawer and EventForm *)

\* setIsOpen(true).  Whether the closed Drawer kept EventForm mounted, and
\* with it the state of its hook, is decided by the drawer component, which
\* is not part of these sources: both outcomes are taken.
OpenDrawer(kept) ==
  /\ ~eventForm.isOpen
  /\ eventForm' = [eventForm EXCEPT
        !.isOpen = TRUE,
        !.hook = IF kept THEN eventForm.hook ELSE NewHook]
  /\ UNCHANGED <<now, isBeforeBound, availability, events, bookings, req, availResult, gen,
                 page, dashboard, users, calls>>

\* Cancel: handleClose
CancelDrawer ==
  /\ eventForm.isOpen
  /\ eventForm' = [eventForm EXCEPT !.isOpen = FALSE]
  /\ UNCHANGED <<now, isBeforeBound, availability, events, bookings, req, availResult, gen,
                 page, dashboard, users, calls>>

\* the submit button, enabled while the rendered loading is false:
\* onSubmit starts with the loading and error of that render and awaits
\* fnCreateEvent(data)
SubmitEventForm(i) ==
  /\ eventForm.isOpen
  /\ ~eventForm.hook.loading
  /\ eventForm.calls[i].pc = "idle"
  /\ eventForm' = [eventForm EXCEPT
        !.hook = fnStart(eventForm.hook),
        !.calls[i].pc = "pending",
        !.calls[i].loading = eventForm.hook.loading,
        !.calls[i].error = eventForm.hook.error]
  /\ UNCHANGED <<now, isBeforeBound, availability, events, bookings, req, availResult, gen,
                 page, dashboard, users, calls>>

\* if(!loading && !error), on the values onSubmit was created with
mayCloseDrawer(call) == ~call.loading /\ call.error = Null

\* createEvent resolves or throws; fn runs to its end and onSubmit goes on:
\* if(!loading && !error) onSubmitForm(); router.refresh()
SettleEventForm(i, ok) ==
  /\ eventForm.calls[i].pc = "pending"
  /\ eventForm' = [eventForm EXCEPT
        !.hook = fnSettle(eventForm.hook, ok, i, i),
        !.isOpen = IF mayCloseDrawer(eventForm.calls[i]) THEN FALSE ELSE eventForm.isOpen,
        !.calls[i].pc = "done",
        !.calls[i].ok = ok,
        !.calls[i].promise = fnPromise(ok),
        !.calls[i].closed = mayCloseDrawer(eventForm.calls[i])]
  /\ UNCHANGED <<now, isBeforeBound, availability, events, bookings, req, availResult, gen,
                 page, dashboard, users, calls>>

ClientNext ==
  \/ \E i \in Invocations : InvokeUpdateUsername(i)
  \/ \E i \in Invocations, ok \in BOOLEAN : SettleUpdateUsername(i, ok)
  \/ \E kept \in BOOLEAN : OpenDrawer(kept)
  \/ CancelDrawer
  \/ \E i \in Invocations : SubmitEventForm(i)
  \/ \E i \in Invocations, ok \in BOOLEAN : SettleEventForm(i, ok)

ClientInit == Init /\ isBeforeBound

ClientSpec == ClientInit /\ [][ClientNext]_vars

----------------------------------------------------------------------------
(* Direct calls of the generator with inputs drawn from bounded sets *)

\* the date the generator is called for
GenDate == formatDate(InitialNow)

\* the clock of a direct call: any instant of GenDate, or a day before or after
GenNows ==
  { parseISO(GenDate, h) : h \in 0 .. DayLen - 1 }
    \cup { parseISO(GenDate - 1, 0), parseISO(GenDate + 1, 0) }

\* every booking interval [s, e) of at most MaxDuration ticks on the given date
IntervalsOn(date) ==
  { [startTime |-> parseISO(date, p[1]), endTime |-> parseISO(date, p[1] + p[2])] :
      p \in { q \in (0 .. DayLen - 1) \X (1 .. MaxDuration) : q[1] + q[2] <= DayLen } }

\* the subsets of S with at most k elements
RECURSIVE SubsetsUpTo(_, _)
SubsetsUpTo(S, k) ==
  IF k = 0 THEN { {} }
  ELSE LET smaller == SubsetsUpTo(S, k - 1)
       IN  smaller \cup { p \cup {x} : p \in smaller, x \in S }

GenInit ==
  /\ now \in GenNows
  /\ isBeforeBound \in BOOLEAN
  /\ availability = [u \in Users |-> NoAvailability]
  /\ events = InitEvents
  /\ bookings = {}
  /\ req = [c \in Callers |-> IdleReq]
  /\ availResult = NoResult
  /\ \E ws \in 0 .. DayLen - 1, we \in 0 .. DayLen - 1, d \in 1 .. MaxDuration,
        g \in 0 .. MaxGap :
       \E bks \in SubsetsUpTo(IntervalsOn(GenDate), MaxGenBookings) :
         /\ ws < we
         /\ gen = [called |-> FALSE,
                   startTime |-> parseISO(GenDate - 1, ws), endTime |-> parseISO(GenDate - 1, we),
                   eventDuration |-> d, date |-> GenDate, bookings |-> bks, timeGap |-> g,
                   out |-> [threw |-> FALSE, slots |-> << >>]]
  /\ page = NoPage
  /\ eventForm = NewEventForm
  /\ dashboard = NewDashboard
  /\ users = InitUsers
  /\ calls = NoCalls

GenCall ==
  /\ ~gen.called
  /\ gen' = [gen EXCEPT !.called = TRUE,
                        !.out = genrateAvailableTimeSlots(gen.startTime, gen.endTime,
                                   gen.eventDuration, gen.date, gen.bookings, gen.timeGap,
                                   now, isBeforeBound)]
  /\ UNCHANGED <<now, isBeforeBound, availability, events, bookings, req, availResult, page,
               eventForm, dashboard, users, calls>>

GenNext == GenCall

GenSpec == GenInit /\ [][GenNext]_vars

----------------------------------------------------------------------------
(* Properties of the slot generator, checked under GenSpec *)

\* the half-open overlap test of two intervals [a1, a2) and [b1, b2)
Overlaps(a1, a2, b1, b2) == a1 < b2 /\ b1 < a2

\* the instants the direct call's returned slots stand for
GenSlotStarts == { parseISO(gen.date, gen.out.slots[i]) : i \in DOMAIN gen.out.slots }

GenDayStart == parseISO(gen.date, formatHHmm(gen.startTime))
GenDayEnd == parseISO(gen.date, formatHHmm(gen.endTime))
GenReturned == gen.called /\ ~gen.out.threw

\* the candidates the loop visits: the cursor plus k durations, before the window's end
GenGrid ==
  LET c0 == startCursor(gen.startTime, gen.date, gen.timeGap, now)
  IN  { c \in c0 .. GenDayEnd - 1 : (c - c0) % gen.eventDuration = 0 }

\* C3: every returned slot [s, s + duration) overlaps no existing booking
\* under the half-open test, and a candidate of the grid that overlaps no
\* booking (it may touch one at either end) is returned.
C3_SlotsAvoidBookings ==
  GenReturned =>
    /\ \A s \in GenSlotStarts : \A b \in gen.bookings :
         ~Overlaps(s, s + gen.eventDuration, b.startTime, b.endTime)
    /\ \A c \in GenGrid :
         (\A b \in gen.bookings : ~Overlaps(c, c + gen.eventDuration, b.startTime, b.endTime))
           => c \in GenSlotStarts

\* a returned slot that starts where one booking ends and ends where another starts
C3_Witness ==
  /\ GenReturned
  /\ \E s \in GenSlotStarts : \E b1, b2 \in gen.bookings :
       b1.endTime = s /\ b2.startTime = s + gen.eventDuration

\* C4: every returned slot start s has s >= dayStart and s + duration <= dayEnd
C4_SlotsInsideWindow ==
  GenReturned =>
    \A s \in GenSlotStarts : s >= GenDayStart /\ s + gen.eventDuration <= GenDayEnd

C10_FullGrid ==
  (gen.called /\ formatDate(now) # gen.date /\ gen.bookings = {}
     /\ (GenDayEnd - GenDayStart) % gen.eventDuration = 0) =>
    /\ ~gen.out.threw
    /\ Len(gen.out.slots) = (GenDayEnd - GenDayStart) \div gen.eventDuration
    /\ gen.out.slots[1] = formatHHmm(GenDayStart)
    /\ gen.out.slots[Len(gen.out.slots)] = formatHHmm(GenDayEnd - gen.eventDuration)

C10_Witness ==
  /\ gen.called /\ formatDate(now) # gen.date /\ gen.bookings = {}
  /\ (GenDayEnd - GenDayStart) % gen.eventDuration = 0
  /\ ~gen.out.threw
  /\ Len(gen.out.slots) >= 2

----------------------------------------------------------------------------
(* Properties of booking admission and of the availability answer *)

\* is [s, e) inside the window of the owner's rule for the date of s
InsideWindow(userId, s, e) ==
  /\ availability[userId].exists
  /\ \E d \in dayAvailabilityOf(availability[userId].days, dayOfWeekOf(formatDate(s))) :
       /\ parseISO(formatDate(s), formatHHmm(d.startTime)) <= s
       /\ e <= parseISO(formatDate(s), formatHHmm(d.endTime))

\* the step of caller c that persists its booking
Admits(c) == req[c].pc = "create" /\ req'[c].pc = "done" /\ bookings' # bookings

\* C1: no two persisted bookings of the same owner overlap (half-open test)
C1_NoOverlappingBookings ==
  \A a, b \in bookings :
    (a # b /\ a.userId = b.userId) =>
      ~Overlaps(a.startTime, a.endTime, b.startTime, b.endTime)

\* C2: of two finished admission requests for the identical slot that met no
\* upstream failure, exactly one created a booking and the other got SlotConflict
C2_ExactlyOneAdmitted ==
  \A c1, c2 \in DOMAIN req :
    (/\ c1 # c2
     /\ req[c1].pc = "done" /\ req[c2].pc = "done"
     /\ req[c1].result # "error" /\ req[c2].result # "error"
     /\ req[c1].userId = req[c2].userId
     /\ req[c1].startTime = req[c2].startTime
     /\ req[c1].endTime = req[c2].endTime)
    => \/ (req[c1].result = "success" /\ req[c2].result = "SlotConflict")
       \/ (req[c2].result = "success" /\ req[c1].result = "SlotConflict")

\* the slots of one answer, as instants, with the event they were computed for
AnswerSlotStarts ==
  { parseISO(availResult.dates[i].date, availResult.dates[i].slots[j]) :
      <<i, j>> \in { p \in (DOMAIN availResult.dates) \X (0 .. DayLen) :
                       p[2] \in DOMAIN availResult.dates[p[1]].slots } }

\* C6: an availability answer offers no slot [t, t + duration) that overlaps
\* a booking already committed for the event's owner
C6_AnswerAvoidsCommittedBookings ==
  (availResult.called /\ ~availResult.empty /\ ~availResult.threw) =>
    \A t \in AnswerSlotStarts :
      \A b \in { x \in bookings : x.userId = events[availResult.event].userId } :
        ~Overlaps(t, t + events[availResult.event].duration, b.startTime, b.endTime)

\* an answer for one event of the owner, with slots on the date of a booking
\* that was committed for another event of the same owner
C6_Witness ==
  /\ availResult.called /\ ~availResult.empty /\ ~availResult.threw
  /\ \E b \in bookings :
       /\ b.userId = events[availResult.event].userId
       /\ b.eventId # availResult.event
       /\ \E i \in DOMAIN availResult.dates :
            /\ availResult.dates[i].date = formatDate(b.startTime)
            /\ availResult.dates[i].slots # << >>

\* C7: no booking is persisted for a request whose day the owner's saved
\* schedule marks unavailable or whose interval is not inside the day's window
C7_OutsideHoursRejected ==
  [][\A c \in DOMAIN req :
       (Admits(c) /\ availability[req[c].userId].exists)
         => InsideWindow(req[c].userId, req[c].startTime, req[c].endTime)]_vars

\* C8: no booking is persisted for a request on the current date that starts
\* before now + timeGap (the request being inside the day's window)
C8_SlotInPastRejected ==
  [][\A c \in DOMAIN req :
       (/\ Admits(c)
        /\ InsideWindow(req[c].userId, req[c].startTime, req[c].endTime)
        /\ formatDate(req[c].startTime) = formatDate(now))
       => req[c].startTime >= now + availability[req[c].userId].timeGap]_vars

\* the step at which the call of caller c fails
Fails(c) == req[c].result = "none" /\ req'[c].result = "error"

\* C9: the step at which an admission fails leaves the booking rows and every
\* event's availability answer as they were, and a failed admission has
\* left no row of its own
C9_FailedAdmissionPersistsNothing ==
  /\ [][\A c \in DOMAIN req :
          Fails(c) =>
            /\ bookings' = bookings
            /\ \A e \in EventIds :
                 getEventAvailability(e, events', availability', bookings', now', isBeforeBound')
                   = getEventAvailability(e, events, availability, bookings, now, isBeforeBound)]_vars
  /\ [](\A c \in DOMAIN req :
          req[c].result = "error" => ~ \E b \in bookings : b.name = c)

\* an admission that failed after its event was found, while the owner has a
\* profile that offers slots for that event
C9_Witness ==
  \E c \in DOMAIN req :
    /\ req[c].result = "error"
    /\ req[c].userId # "none"
    /\ availability[req[c].userId].exists
    /\ getEventAvailability(req[c].eventId, events, availability, bookings, now,
                            isBeforeBound).dates # << >>

----------------------------------------------------------------------------
(* Further properties of the slot generator, checked under GenSpec *)

\* b is the only booking, it fills exactly one cell of the grid, and the
\* date is not today
OneCellBooked(b) ==
  /\ gen.bookings = {b}
  /\ formatDate(now) # gen.date
  /\ b.startTime \in GenGrid
  /\ b.endTime = b.startTime + gen.eventDuration

\* C11: on a date that is not today, one booking that fills exactly the grid
\* cell [g, g + duration) removes the slot g and no other: every other cell
\* of the grid, g - duration and g + duration among them, is returned
C11_OneCellRemovesOneSlot ==
  \A b \in gen.bookings :
    (gen.called /\ OneCellBooked(b)) =>
      /\ ~gen.out.threw
      /\ GenSlotStarts = GenGrid \ {b.startTime}
      /\ Len(gen.out.slots) = Cardinality(GenGrid) - 1

\* the booked cell has a returned neighbour on either side
C11_Witness ==
  /\ gen.called
  /\ \E b \in gen.bookings :
       /\ OneCellBooked(b)
       /\ b.startTime - gen.eventDuration \in GenSlotStarts
       /\ b.startTime + gen.eventDuration \in GenSlotStarts

\* the instants of the date the generator is called for
GenInstants == parseISO(gen.date, 0) .. parseISO(gen.date, DayLen - 1)

\* C17: for every candidate [c, c + duration) and every booking [bs, be)
\* with bs < be the three-case conflict test answers as the half-open test
\* c < be and bs < c + duration
C17_ThreeCasesAreHalfOpenOverlap ==
  gen.called =>
    \A c \in GenInstants : \A b \in gen.bookings :
      SlotConflict(c, c + gen.eventDuration, b)
        <=> Overlaps(c, c + gen.eventDuration, b.startTime, b.endTime)

\* a candidate the loop visited that strictly contains a booking: only the
\* third case of the test answers for it
C17_Witness ==
  /\ GenReturned
  /\ \E c \in GenGrid : \E b \in gen.bookings :
       c < b.startTime /\ b.endTime < c + gen.eventDuration

\* C18: the loop terminates and returns at most (dayEnd - dayStart) / duration
\* slots, also when the duration does not divide the window
C18_AtMostWindowOverDuration ==
  GenReturned =>
    Len(gen.out.slots) * gen.eventDuration <= GenDayEnd - GenDayStart

----------------------------------------------------------------------------
(* Properties of the availability answer, checked under Spec *)

AnswerDates == { availResult.dates[i].date : i \in DOMAIN availResult.dates }

\* C12: every date of an answer lies in [today, today + 30), so there are at
\* most 30 of them, and they come in increasing order
C12_WindowIsThirtyDays ==
  (availResult.called /\ ~availResult.threw) =>
    /\ \A d \in AnswerDates :
         formatDate(now) <= d /\ d < formatDate(now) + WindowDays
    /\ Len(availResult.dates) <= WindowDays
    /\ \A i, j \in DOMAIN availResult.dates :
         i < j => availResult.dates[i].date < availResult.dates[j].date

\* C13: no entry of an answer has an empty slot list
C13_NoEmptyDateEntry ==
  (availResult.called /\ ~availResult.threw) =>
    \A i \in DOMAIN availResult.dates : availResult.dates[i].slots # << >>

\* C14: for an event that does not exist, or whose owner has no availability
\* profile, the answer is the empty sequence and nothing is thrown
C14_MissingUpstreamGivesEmpty ==
  (/\ availResult.called
   /\ \/ availResult.event \notin DOMAIN events
      \/ ~availability[events[availResult.event].userId].exists)
  => (availResult.dates = << >> /\ ~availResult.threw)

\* the event exists and its owner, who has bookings, has no profile
C14_Witness ==
  /\ availResult.called
  /\ availResult.event \in DOMAIN events
  /\ ~availability[events[availResult.event].userId].exists
  /\ \E b \in bookings : b.userId = events[availResult.event].userId
  /\ availResult.dates = << >>

\* C15: an answer has no entry for a date whose weekday the owner has no
\* stored rule for, whatever the bookings and the clock; and a save stores
\* no rule for a weekday it was given with isAvailable = false
C15_UnavailableWeekdayOffersNothing ==
  /\ []((availResult.called /\ ~availResult.empty) =>
          \A d \in AnswerDates :
            \E r \in availability[events[availResult.event].userId].days :
              r.day = dayOfWeekOf(d))
  /\ [][\A u \in Users, data \in AvailabilityInputs :
          updateUserAvailability(u, data) =>
            \A k \in DOMAIN data.days :
              ~data.days[k].isAvailable =>
                ~ \E r \in availability'[u].days : r.day = toUpperCase(k)]_vars

\* an answer with entries for an owner who has bookings and who saved today's
\* weekday as unavailable
C15_Witness ==
  /\ availResult.called /\ ~availResult.empty /\ ~availResult.threw
  /\ availResult.dates # << >>
  /\ ~ \E r \in availability[events[availResult.event].userId].days :
         r.day = dayOfWeekOf(formatDate(now))
  /\ \E b \in bookings : b.userId = events[availResult.event].userId

----------------------------------------------------------------------------
(* Properties of repeated calls and of the availability store, checked
   under PageSpec *)

\* the stored rules as the program reads them: weekday and times of day
storedRules(av) ==
  { [day |-> r.day, startTime |-> formatHHmm(r.startTime), endTime |-> formatHHmm(r.endTime)] :
      r \in av.days }

\* the rules a form value asks for
formRules(data) ==
  { [day |-> toUpperCase(k), startTime |-> data.days[k].startTime,
     endTime |-> data.days[k].endTime] :
      k \in { d \in DOMAIN data.days : data.days[d].isAvailable } }

\* C19: after a save the stored rules are exactly the weekdays marked
\* available, with the form's times, and timeGap is the form's, whatever was
\* stored before; a save of what is already stored changes nothing
C19_SaveOverwrites ==
  [][\A u \in Users, data \in AvailabilityInputs :
       updateUserAvailability(u, data) =>
         /\ availability'[u].exists
         /\ storedRules(availability'[u]) = formRules(data)
         /\ Cardinality(availability'[u].days) = Cardinality(formRules(data))
         /\ availability'[u].timeGap = data.timeGap
         /\ (/\ availability[u].exists
             /\ storedRules(availability[u]) = formRules(data)
             /\ Cardinality(availability[u].days) = Cardinality(formRules(data))
             /\ availability[u].timeGap = data.timeGap)
            => availability'[u] = availability[u]]_vars

\* the booking page was rendered from a profile with more rules than the
\* owner has stored now: a later save removed some
C19_Witness ==
  /\ page.answer.called
  /\ page.answer.event \in DOMAIN events
  /\ page.answer.profile.exists
  /\ availability[events[page.answer.event].userId].exists
  /\ Cardinality(availability[events[page.answer.event].userId].days)
       < Cardinality(page.answer.profile.days)

\* what getUserAvailability is to return after a save of data
expectedAvailabilityData(data) ==
  [null |-> FALSE, timeGap |-> data.timeGap,
   days |-> [k \in DOMAIN data.days |->
               IF data.days[k].isAvailable
               THEN [isAvailable |-> TRUE, startTime |-> data.days[k].startTime,
                     endTime |-> data.days[k].endTime]
               ELSE [isAvailable |-> FALSE, startTime |-> DefaultStartTime,
                     endTime |-> DefaultEndTime]]]

\* C20: once a save has completed, getUserAvailability of the same user
\* returns the saved timeGap and, per weekday, the saved flag with the saved
\* times, or the default times for an unavailable weekday
C20_SaveThenLoadRoundTrips ==
  [][\A u \in Users, data \in AvailabilityInputs :
       updateUserAvailability(u, data) =>
         getUserAvailability(u, availability') = expectedAvailabilityData(data)]_vars

----------------------------------------------------------------------------
(* Properties of the stored day rules, checked under Spec *)

\* C21: every stored day rule has its window start before its window end,
\* after any sequence of saves with any data
C21_StoredWindowsAreProper ==
  \A u \in Users : \A r \in availability[u].days :
    formatHHmm(r.startTime) < formatHHmm(r.endTime)

\* the stored rules of user u for one weekday
rulesFor(u, weekday) == { r \in availability[u].days : r.day = weekday }

WeekdaySet == { Weekdays[i] : i \in DOMAIN Weekdays }

----------------------------------------------------------------------------
(* The grid of the slot generator, checked under GenSpec *)

\* C26: the returned slot starts are strictly increasing and every one of
\* them is the initial cursor plus a whole number of durations, the initial
\* cursor being the window's start or, on the current date, the cursor after
\* the one adjustment made before the loop
C26_SlotsOnOneGrid ==
  GenReturned =>
    /\ \A i, j \in DOMAIN gen.out.slots :
         i < j => gen.out.slots[i] < gen.out.slots[j]
    /\ \A i \in DOMAIN gen.out.slots :
         parseISO(gen.date, gen.out.slots[i]) \in GenGrid

\* a slot is returned after a booking that ends off the grid
C26_Witness ==
  /\ GenReturned
  /\ \E b \in gen.bookings : \E s \in GenSlotStarts :
       /\ b.endTime \notin GenGrid
       /\ b.endTime < s
       /\ \E c \in GenGrid : c < s /\ SlotConflict(c, c + gen.eventDuration, b)

----------------------------------------------------------------------------
(* Properties of useFetch and of the event form, checked under ClientSpec *)

\* invocation i of the dashboard's function is the only one made so far
OnlyInvocation(i) ==
  /\ dashboard.calls[i].pc # "idle"
  /\ \A j \in Invocations \ {i} : dashboard.calls[j].pc = "idle"

\* no other invocation of the dashboard's function is in flight
AloneInFlight(i) ==
  /\ dashboard.calls[i].pc = "pending"
  /\ \A j \in Invocations \ {i} : dashboard.calls[j].pc # "pending"

\* C23: for a single invocation of fn, loading is true from its start until
\* the callback settles and false afterwards; a resolved callback leaves its
\* response in data and null in error, a rejected one leaves its error in
\* error; the promise of fn is never rejected
C23_SingleInvocation ==
  /\ [](\A i \in Invocations :
          OnlyInvocation(i) =>
            /\ dashboard.calls[i].pc = "pending" => dashboard.hook.loading
            /\ dashboard.calls[i].pc = "done" =>
                 /\ ~dashboard.hook.loading
                 /\ dashboard.calls[i].promise = "fulfilled"
                 /\ dashboard.calls[i].ok =>
                      (dashboard.hook.data = i /\ dashboard.hook.error = Null)
                 /\ ~dashboard.calls[i].ok => dashboard.hook.error = i)
  /\ [][\A i \in Invocations :
          (AloneInFlight(i) /\ dashboard'.calls[i].pc = "done") =>
            /\ ~dashboard'.hook.loading
            /\ dashboard'.calls[i].promise = "fulfilled"
            /\ dashboard'.calls[i].ok =>
                 (dashboard'.hook.data = i /\ dashboard'.hook.error = Null)
            /\ ~dashboard'.calls[i].ok =>
                 (dashboard'.hook.error = i /\ dashboard'.hook.data = dashboard.hook.data)]_vars

\* one invocation was made, its callback rejected, and fn has returned
C23_Witness ==
  \E i \in Invocations :
    /\ OnlyInvocation(i)
    /\ dashboard.calls[i].pc = "done"
    /\ ~dashboard.calls[i].ok
    /\ dashboard.hook.error = i

\* C24: a submission of the event form closes the drawer (calls
\* onSubmitForm) only if its createEvent call succeeded; when createEvent
\* throws the drawer is not closed by the submission and the error is set
\* for the form to show
C24_DrawerClosesOnlyOnSuccess ==
  \A i \in Invocations :
    eventForm.calls[i].pc = "done" =>
      /\ eventForm.calls[i].closed => eventForm.calls[i].ok
      /\ ~eventForm.calls[i].ok => ~eventForm.calls[i].closed

\* the invocation of the dashboard's function that was started last
LastStarted ==
  CHOOSE i \in Invocations : dashboard.calls[i].seq = dashboard.started

\* C27: with invocations of one function overlapping, loading is true while
\* any of them has not settled, and once all have settled data and error
\* are those of the invocation started last
C27_OverlappingInvocations ==
  /\ (\E i \in Invocations : dashboard.calls[i].pc = "pending") => dashboard.hook.loading
  /\ (/\ dashboard.started > 0
      /\ \A i \in Invocations : dashboard.calls[i].pc # "pending")
     => IF dashboard.calls[LastStarted].ok
        THEN dashboard.hook.data = LastStarted /\ dashboard.hook.error = Null
        ELSE dashboard.hook.error = LastStarted

----------------------------------------------------------------------------
(* Properties of the user table, checked under UserSpec *)

\* the step at which updateUsername makes its check
ChecksUsername(n) == calls[n].pc = "find" /\ calls'[n].pc # "find"

\* C25: updateUsername fails with "Username already taken", changing
\* nothing, exactly when another user holds the username; a user who submits
\* the username they hold passes the check; a call that succeeded has left
\* the caller's stored username equal to the submitted one
C25_TakenOnlyByAnotherUser ==
  /\ [][\A n \in NameCalls :
          ChecksUsername(n) =>
            /\ (calls'[n].result = "Username already taken")
                 <=> (\E r \in userByUsername(users, calls[n].arg) :
                        r.clerkUserId # calls[n].caller)
            /\ users' = users]_vars
  /\ [](\A n \in NameCalls :
          (calls[n].pc = "done" /\ calls[n].result = "success") =>
            \E r \in userByClerkId(users, calls[n].caller) : r.username = calls[n].arg)

\* C28: no two users hold the same username, and a call that reported
\* success has left its username stored for its caller
C28_UsernamesStayUnique ==
  /\ \A r1, r2 \in users : r1 # r2 => r1.username # r2.username
  /\ \A n \in NameCalls :
       (calls[n].pc = "done" /\ calls[n].result = "success") =>
         \E r \in userByClerkId(users, calls[n].caller) : r.username = calls[n].arg

\* two users asked for the same free username: one call succeeded and the
\* other, having passed its check, was rejected by the database
C28_Witness ==
  \E n1, n2 \in NameCalls :
    /\ calls[n1].caller # calls[n2].caller
    /\ calls[n1].arg = calls[n2].arg
    /\ calls[n1].pc = "done" /\ calls[n1].result = "success"
    /\ calls[n2].pc = "done" /\ calls[n2].result = "db error"
    /\ calls[n2].caller # "none"

\* C29: for a signed-in Clerk user there is exactly one database user with
\* the Clerk id once a checkUser call has returned, and every call returns
\* that user, never undefined
C29_CheckUserReturnsTheUser ==
  \A p \in CheckCalls :
    (calls[p].pc = "done" /\ calls[p].caller \in ClerkIds) =>
      /\ Cardinality(userByClerkId(users, calls[p].caller)) = 1
      /\ \E r \in userByClerkId(users, calls[p].caller) : calls[p].result = r.id

----------------------------------------------------------------------------
(* Properties of deleteEvent, checked under DeleteSpec *)

\* the step at which call x returns or throws
Returns(x) == calls[x].pc # "done" /\ calls'[x].pc = "done"

\* the caller of x has a user row and that user owns the event x names
CallerOwnsEvent(x) ==
  /\ calls[x].arg \in DOMAIN InitEvents
  /\ \E r \in userByClerkId(users, calls[x].caller) :
       InitEvents[calls[x].arg].userId = r.id

\* C30: an event is removed only by a deleteEvent call of its owner, and only
\* that event; a call whose caller is not signed in, has no user row, or
\* names an event that does not exist or belongs to another user throws and
\* leaves the stored events as they are
C30_OnlyTheOwnerDeletes ==
  /\ [][/\ events' # events =>
             \E x \in DeleteCalls :
               /\ Returns(x) /\ calls'[x].result = "success"
               /\ CallerOwnsEvent(x)
               /\ DOMAIN events' = DOMAIN events \ {calls[x].arg}
               /\ \A e \in DOMAIN events' : events'[e] = events[e]
        /\ \A x \in DeleteCalls :
             (Returns(x) /\ calls'[x].result # "success") => events' = events]_vars
  /\ [](\A x \in DeleteCalls :
          (calls[x].pc = "done" /\ ~CallerOwnsEvent(x)) => calls[x].result # "success")

\* one call of the owner has removed an event, and a call of another user
\* for an event that is still stored was refused
C30_Witness ==
  \E x, y \in DeleteCalls :
    /\ calls[x].pc = "done" /\ calls[x].result = "success"
    /\ calls[y].pc = "done" /\ calls[y].result = "Event not found"
    /\ calls[y].arg \in DOMAIN events
    /\ userByClerkId(users, calls[y].caller) # {}

====
